---- MODULE Spec2Model ----
(***************************************************************************)
(* Model of roles/test1/library/deploy.py: the single-file atomic commit   *)
(* and the recursive directory synchronisation of main().                  *)
(*                                                                         *)
(* The filesystem is a function from the existing paths (sequences of      *)
(* names, the root <<>> being implicit) to nodes.  A path argument of the  *)
(* program is a string; it is modelled as [p, slash]: its components and   *)
(* whether the string ends in os.sep, which is all the code reads of it.   *)
(* Owner stands for the owner/group pair: the code treats both alike.      *)
(* Access-control lists and the numeric mode are not represented.          *)
(***************************************************************************)
EXTENDS Integers, Sequences, FiniteSets, TLC

\* ---------------------------------------------------------------- bounds
NumContents == 2
MaxDepth == 2

\* ------------------------------------------------------------- constants
\* "no checksum": checksum_dest = None, checksum_src = None for a directory
NoSum == 0

Contents == 1..NumContents
ProcessUid == "root"
AppUid == "app"
NoOwner == "none"

\* ----------------------------------------------------------------- paths
Front(s) == SubSeq(s, 1, Len(s) - 1)
Last(s) == s[Len(s)]
IsPrefix(d, p) == Len(d) <= Len(p) /\ SubSeq(p, 1, Len(d)) = d
Suffix(p, d) == SubSeq(p, Len(d) + 1, Len(p))

PathArg(p, slash) == [p |-> p, slash |-> slash]

\* os.path.dirname: "/d/" -> "/d", "/d/a" -> "/d"
DirName(x) == IF x.slash THEN PathArg(x.p, FALSE) ELSE PathArg(Front(x.p), FALSE)

\* os.path.basename: "/s/" -> "", "/s/a" -> "a"
BaseName(x) == IF x.slash THEN "" ELSE Last(x.p)

\* os.path.join(x, name): join("/d", "") = "/d/"
Join(x, name) == IF name = "" THEN PathArg(x.p, TRUE) ELSE PathArg(Append(x.p, name), FALSE)

\* ----------------------------------------------------------------- nodes
FileNode(c, o, t) == [kind |-> "file", data |-> c, target |-> <<>>, owner |-> o, mtime |-> t]
DirNode(o) == [kind |-> "dir", data |-> 0, target |-> <<>>, owner |-> o, mtime |-> 0]
LinkNode(tg, o) == [kind |-> "link", data |-> 0, target |-> tg, owner |-> o, mtime |-> 0]

\* fs with node n at path p
Put(fs, p, n) == [q \in DOMAIN fs \cup {p} |-> IF q = p THEN n ELSE fs[q]]

\* fs without p and everything below it
Remove(fs, p) == [q \in {r \in DOMAIN fs : ~IsPrefix(p, r)} |-> fs[q]]

\* Path resolution: every symbolic link among the components is followed,
\* the last one only when final is TRUE (stat) and not when FALSE (lstat).
RECURSIVE Walk(_, _, _, _)
Walk(fs, cur, rest, final) ==
    IF rest = <<>> THEN cur
    ELSE LET nxt == Append(cur, Head(rest))
         IN IF nxt \in DOMAIN fs /\ fs[nxt].kind = "link" /\ (final \/ Len(rest) > 1)
            THEN Walk(fs, fs[nxt].target, Tail(rest), final)
            ELSE Walk(fs, nxt, Tail(rest), final)

Real(fs, p) == Walk(fs, <<>>, p, TRUE)
LReal(fs, p) == Walk(fs, <<>>, p, FALSE)

Present(fs, p) == p = <<>> \/ p \in DOMAIN fs
KindAt(fs, p) == IF p = <<>> THEN "dir" ELSE IF p \in DOMAIN fs THEN fs[p].kind ELSE "absent"

\* os.path.exists / isdir / isfile follow links, islink does not.  A string
\* ending in the separator names its last component as a directory.
Exists(fs, x) ==
    LET r == Real(fs, x.p) IN Present(fs, r) /\ (x.slash => KindAt(fs, r) = "dir")
IsDir(fs, x) == KindAt(fs, Real(fs, x.p)) = "dir"
IsFile(fs, x) == ~x.slash /\ KindAt(fs, Real(fs, x.p)) = "file"
IsLink(fs, x) ==
    IF x.slash THEN FALSE ELSE KindAt(fs, LReal(fs, x.p)) = "link"

\* os.listdir of an existing directory
ListDir(fs, d) ==
    LET r == Real(fs, d)
    IN {Last(q) : q \in {q \in DOMAIN fs : Len(q) = Len(r) + 1 /\ IsPrefix(r, q)}}

\* ------------------------------------------------------- directory layout
SrcRoot == <<"in", "s">>
DestRoot == <<"d">>
LinkFile == <<"t", "f">>
LinkDir == <<"t", "dir">>
LinkGone == <<"t", "gone">>
\* backup_dir = '/app/bak', ticket_id = '123456' (backup_local)
BakRoot == <<"app", "bak">>
Ticket == "123456"

\* dircmp lists are sorted: the order in which the loops visit the entries
NameOrder == <<"123456", "a", "a~", "app", "b", "bak", "d", "date1", "date2", "dir", "f",
               "f~", "gone", "in", "new", "s", "t", "tmp">>
SortNames(S) == SelectSeq(NameOrder, LAMBDA n : n \in S)

\* ------------------------------------------------ primitives on a run state
\* A run state st is [fs, err, why, log]: the filesystem, whether an exception
\* escaped (the remaining operations of the run are then not executed) and which, and
\* the record of every replacement of the content of an existing path: the
\* path, the backup file taken for it, and whether that backup held the
\* content being replaced at that moment.
RunState(fs) == [fs |-> fs, err |-> FALSE, why |-> "", log |-> {}]
Raise(st, why) == [st EXCEPT !.err = TRUE, !.why = IF st.err THEN @ ELSE why]

Replaced(fs, p, bk) ==
    [path |-> p, bak |-> bk,
     held |-> bk /= <<>> /\ bk \in DOMAIN fs /\ fs[bk].kind = "file" /\ fs[bk].data = fs[p].data]

\* os.makedirs(p, exist_ok=True) run by the process: every missing ancestor
\* and p itself become directories.
MakeDirs(fs, p) ==
    LET missing == {SubSeq(p, 1, i) : i \in 1..Len(p)} \ DOMAIN fs
    IN [q \in DOMAIN fs \cup missing |-> IF q \in missing THEN DirNode(ProcessUid) ELSE fs[q]]

\* shutil.copy2(src, dst): both names are followed; an existing destination
\* keeps its owner and takes the source's bytes and times; a new one belongs
\* to the process.  bk names the backup taken for dst (<<>> when none).
Copy2(st, src, dst, bk) ==
    LET fs == st.fs
        rs == Real(fs, src)
        rd == Real(fs, dst)
    IN IF st.err THEN st
       ELSE IF KindAt(fs, rs) /= "file" \/ KindAt(fs, rd) \in {"dir", "link"}
                \/ KindAt(fs, Front(rd)) /= "dir"
       THEN Raise(st, "OSError")
       ELSE IF KindAt(fs, rd) = "file"
       THEN [st EXCEPT !.fs = Put(fs, rd, [fs[rd] EXCEPT !.data = fs[rs].data, !.mtime = fs[rs].mtime]),
                       !.log = @ \cup {Replaced(fs, rd, bk)}]
       ELSE [st EXCEPT !.fs = Put(fs, rd, FileNode(fs[rs].data, ProcessUid, fs[rs].mtime))]

\* os.symlink(linkto, dst): fails with EEXIST when dst names anything, a
\* dangling link included (the last component is not followed).
Symlink(st, linkto, dst) ==
    LET fs == st.fs
        ld == LReal(fs, dst)
    IN IF st.err THEN st
       ELSE IF Present(fs, ld) \/ KindAt(fs, Front(ld)) /= "dir" THEN Raise(st, "FileExistsError")
       ELSE [st EXCEPT !.fs = Put(fs, ld, LinkNode(linkto, ProcessUid))]

\* shutil.copytree(src, dst, symlinks): dst must not exist; with symlinks a
\* link is recreated, without it its target is copied in its place and a
\* dangling link is an error raised after everything else has been copied.
RECURSIVE CopyEntries(_, _, _, _, _)
CopyEntries(st, src, dst, names, symlinks) ==
    IF names = <<>> THEN st
    ELSE LET n == Head(names)
             s == Append(src, n)
             d == Append(dst, n)
             node == st.fs[s]
             t == IF node.kind = "link" /\ ~symlinks THEN Real(st.fs, s) ELSE s
             k == KindAt(st.fs, t)
             one == IF k = "absent" THEN Raise(st, "shutil.Error")
                    ELSE IF k = "link" THEN [st EXCEPT !.fs = Put(st.fs, d, LinkNode(node.target, ProcessUid))]
                    ELSE IF k = "file"
                    THEN [st EXCEPT !.fs = Put(st.fs, d, FileNode(st.fs[t].data, ProcessUid, st.fs[t].mtime))]
                    ELSE CopyEntries([st EXCEPT !.fs = Put(st.fs, d, DirNode(ProcessUid))],
                                     t, d, SortNames(ListDir(st.fs, t)), symlinks)
         IN CopyEntries(one, src, dst, Tail(names), symlinks)

CopyTree(st, src, dst, symlinks) ==
    LET fs == st.fs
        rs == Real(fs, src)
        ld == LReal(fs, dst)
    IN IF st.err THEN st
       ELSE IF Present(fs, ld) \/ KindAt(fs, rs) /= "dir" THEN Raise(st, "FileExistsError")
       ELSE CopyEntries([st EXCEPT !.fs = MakeDirs(fs, ld)], rs, ld,
                        SortNames(ListDir(fs, rs)), symlinks)

\* ------------------------------------------------------------ filecmp.dircmp
\* One level of filecmp.dircmp(a, b), a and b existing directories.  Names are
\* compared after os.stat, which follows links; a name whose stat fails or
\* whose two types differ is "funny" and in none of the lists the code reads.
StatKind(fs, d, n) == KindAt(fs, Real(fs, Append(d, n)))
StatNode(fs, d, n) == fs[Real(fs, Append(d, n))]

\* the size of a content: every non-empty content has the same length
Size(c) == IF c = 0 THEN 0 ELSE 1

\* filecmp.cmp(f1, f2, shallow=True): equal signatures (size, mtime) are
\* taken as equal files without reading them; otherwise sizes, then bytes.
CmpSame(n1, n2) ==
    \/ (Size(n1.data) = Size(n2.data) /\ n1.mtime = n2.mtime)
    \/ (Size(n1.data) = Size(n2.data) /\ n1.data = n2.data)

LeftList(fs, a) == ListDir(fs, a)
LeftOnly(fs, a, b) == ListDir(fs, a) \ ListDir(fs, b)
CommonNames(fs, a, b) == ListDir(fs, a) \cap ListDir(fs, b)
CommonDirs(fs, a, b) ==
    {n \in CommonNames(fs, a, b) : StatKind(fs, a, n) = "dir" /\ StatKind(fs, b, n) = "dir"}
CommonFiles(fs, a, b) ==
    {n \in CommonNames(fs, a, b) : StatKind(fs, a, n) = "file" /\ StatKind(fs, b, n) = "file"}
CommonFunny(fs, a, b) == CommonNames(fs, a, b) \ (CommonDirs(fs, a, b) \cup CommonFiles(fs, a, b))
SameFiles(fs, a, b) ==
    {n \in CommonFiles(fs, a, b) : CmpSame(StatNode(fs, a, n), StatNode(fs, b, n))}
DiffFiles(fs, a, b) == CommonFiles(fs, a, b) \ SameFiles(fs, a, b)

\* ------------------------------------------------------------- ownership
\* module.set_owner_if_different(path, owner, False) outside check mode:
\* lstat and lchown, so a link itself is re-owned; a missing path raises.
OwnerDiffers(fs, p, owner) == fs[LReal(fs, p)].owner /= owner
SetOwner(st, p, owner) ==
    LET lp == LReal(st.fs, p)
    IN IF st.err THEN st
       ELSE IF ~Present(st.fs, lp) THEN Raise(st, "OSError")
       ELSE IF lp = <<>> THEN st
       ELSE [st EXCEPT !.fs = Put(st.fs, lp, [st.fs[lp] EXCEPT !.owner = owner])]

\* the entries os.walk(path) hands to chown_recursive: the top as named, and
\* every directory and file below it (links are listed, never descended)
WalkSet(fs, x) ==
    LET top == Real(fs, x.p)
    IN IF KindAt(fs, top) /= "dir" THEN {}
       ELSE {IF x.slash THEN top ELSE LReal(fs, x.p)} \cup {q \in DOMAIN fs : IsPrefix(top, q) /\ q /= top}

\* chown_recursive(path, module): [st, changed]
ChownRecursive(st, x, m) ==
    LET fs == st.fs
        ws == WalkSet(fs, x) \ {<<>>}
    IN IF st.err \/ m.owner = NoOwner THEN [st |-> st, changed |-> FALSE]
       ELSE IF ~m.check_mode
       THEN [st |-> [st EXCEPT !.fs = [q \in DOMAIN fs |->
                                         IF q \in ws THEN [fs[q] EXCEPT !.owner = m.owner] ELSE fs[q]]],
             changed |-> \E q \in ws : fs[q].owner /= m.owner]
       \* check mode: os.stat follows links; a dangling link raises
       ELSE IF \E q \in ws : ~Present(fs, Real(fs, q))
       THEN [st |-> Raise(st, "FileNotFoundError"), changed |-> FALSE]
       ELSE [st |-> st, changed |-> \E q \in ws : Real(fs, q) /= <<>> /\ fs[Real(fs, q)].owner /= m.owner]

\* ---------------------------------------------------------------- backups
\* module.preserved_copy(fn, backupdest): the bytes, times and owner of fn
PreservedCopy(fs, fn, dst) ==
    LET n == fs[Real(fs, fn)] IN Put(fs, Real(fs, dst), FileNode(n.data, n.owner, n.mtime))

\* the directory that holds the backups of one invocation, as line 445 joins it
TxnRoot(m) == BakRoot \o <<m.date, Ticket>>

\* os.path.join(backup_dir, backup_date, ticket_id, fn.replace(dest, '', 1)):
\* what is left of fn after the dest parameter is relative only when that
\* parameter ends in the separator; otherwise it starts with the separator
\* and os.path.join discards everything before it.
BackupDest(fn, m) ==
    IF m.dest.slash THEN TxnRoot(m) \o Suffix(fn, m.dest.p) ELSE Suffix(fn, m.dest.p)

\* backup_local(fn, module), called with a bytes path: [st, file].  Under
\* Python 3 fn.replace(dest, ...) mixes bytes and str and raises TypeError.
\* ok is whether the copy itself succeeds (it may not: space, permission).
BackupLocal(st, fn, m, ok) ==
    LET fs == st.fs
        bd == BackupDest(fn, m)
        made == IF KindAt(fs, Front(bd)) = "absent" /\ Len(bd) > 1 THEN MakeDirs(fs, Front(bd)) ELSE fs
    IN IF st.err \/ ~Exists(fs, PathArg(fn, FALSE)) THEN [st |-> st, file |-> <<>>]
       ELSE IF m.py3 THEN [st |-> Raise(st, "TypeError"), file |-> <<>>]
       ELSE IF ~ok \/ KindAt(made, Front(bd)) /= "dir" \/ KindAt(made, Real(made, bd)) = "dir"
                \/ KindAt(fs, Real(fs, fn)) /= "file"
       THEN [st |-> Raise([st EXCEPT !.fs = made], "Could not make backup"), file |-> <<>>]
       ELSE [st |-> [st EXCEPT !.fs = PreservedCopy(made, fn, bd)], file |-> bd]

\* AnsibleModule.backup_local(fn), the library's own routine that main() calls
\* for the single file: the copy is written beside fn as fn.<pid>.<time>~
LibBackupDest(fn) == Append(Front(fn), IF Last(fn) = "a" THEN "a~" ELSE "f~")

\* ------------------------------------------------------------ sync executor
\* Every routine returns [st, changed].  A result that is read more than once
\* is handed on as an argument.
Result(st, changed) == [st |-> st, changed |-> changed]
Owned(st, d, m_) == IF m_.owner /= NoOwner THEN SetOwner(st, d, m_.owner) ELSE st
CopyBacked(bk, s, d) == Copy2(bk.st, s, d, bk.file)

\* lines 304-326, one changed entry: a source link with local_follow false is
\* recreated over the entry; otherwise the entry is backed up when backup is
\* set, and overwritten; then the owner is set
DiffItem(st, s, d, m_, ok) ==
    IF IsLink(st.fs, PathArg(s, FALSE)) /\ m_.local_follow = "no"
    THEN Symlink(st, st.fs[LReal(st.fs, s)].target, d)
    ELSE IF m_.backup THEN CopyBacked(BackupLocal(st, d, m_, ok), s, d)
    ELSE Copy2(st, s, d, <<>>)

RECURSIVE DiffLoop(_, _, _, _, _, _)
DiffLoop(st, src, dest, items, m_, ok) ==
    IF items = <<>> \/ st.err THEN st
    ELSE DiffLoop(Owned(DiffItem(st, Append(src, Head(items)), Append(dest, Head(items)), m_, ok),
                        Append(dest, Head(items)), m_),
                  src, dest, Tail(items), m_, ok)

\* copy_diff_files(src, dest, module)
CopyDiffFiles(st, src, dest, m_, ok) ==
    IF st.err THEN Result(st, FALSE)
    ELSE IF m_.check_mode THEN Result(st, DiffFiles(st.fs, src, dest) /= {})
    ELSE Result(DiffLoop(st, src, dest, SortNames(DiffFiles(st.fs, src, dest)), m_, ok),
                DiffFiles(st.fs, src, dest) /= {})

\* lines 344-404, one new-only entry.  The backup calls of the branches are
\* guarded by the existence of a name that is in no listing of dest: they
\* never run.  A link is handled only when local_follow is true or false.
LeftItem(st, s, d, m_) ==
    LET link == IsLink(st.fs, PathArg(s, FALSE))
        k == KindAt(st.fs, Real(st.fs, s))
    IN IF link /\ k = "dir" /\ m_.local_follow = "yes"
       THEN ChownRecursive(CopyTree(st, s, d, FALSE), PathArg(d, FALSE), m_).st
       ELSE IF link /\ k \in {"dir", "file"} /\ m_.local_follow = "no"
       THEN Symlink(st, st.fs[LReal(st.fs, s)].target, d)
       ELSE IF (link /\ k = "file" /\ m_.local_follow = "yes") \/ (~link /\ k = "file")
       THEN Owned(Copy2(st, s, d, <<>>), d, m_)
       ELSE IF ~link /\ k = "dir"
       THEN ChownRecursive(CopyTree(st, s, d, m_.local_follow /= "yes"), PathArg(d, FALSE), m_).st
       ELSE st

RECURSIVE LeftLoop(_, _, _, _, _)
LeftLoop(st, src, dest, items, m_) ==
    IF items = <<>> \/ st.err THEN st
    ELSE LeftLoop(LeftItem(st, Append(src, Head(items)), Append(dest, Head(items)), m_),
                  src, dest, Tail(items), m_)

\* copy_left_only(src, dest, module)
CopyLeftOnly(st, src, dest, m_) ==
    IF st.err THEN Result(st, FALSE)
    ELSE IF m_.check_mode THEN Result(st, LeftOnly(st.fs, src, dest) /= {})
    ELSE Result(LeftLoop(st, src, dest, SortNames(LeftOnly(st.fs, src, dest)), m_),
                LeftOnly(st.fs, src, dest) /= {})

\* copy_common_dirs(src, dest, module).  For each shared directory the two
\* routines run on the pair; the recursion into it is the right operand of
\* "changed or ...", which is not evaluated once changed is true.
RECURSIVE CopyCommonDirs(_, _, _, _, _)
RECURSIVE CommonLoop(_, _, _, _, _, _, _)

CommonRecurse(changed, lo, s, d, m_, ok) ==
    IF changed \/ lo.changed THEN Result(lo.st, TRUE)
    ELSE CopyCommonDirs(lo.st, s, d, m_, ok)

CommonLeft(changed, df, s, d, m_, ok) ==
    CommonRecurse(changed \/ df.changed, CopyLeftOnly(df.st, s, d, m_), s, d, m_, ok)

CommonNext(r, src, dest, items, m_, ok) == CommonLoop(r.st, r.changed, src, dest, items, m_, ok)

CommonLoop(st, changed, src, dest, items, m_, ok) ==
    IF items = <<>> \/ st.err THEN Result(st, changed)
    ELSE CommonNext(CommonLeft(changed,
                               CopyDiffFiles(st, Append(src, Head(items)), Append(dest, Head(items)), m_, ok),
                               Append(src, Head(items)), Append(dest, Head(items)), m_, ok),
                    src, dest, Tail(items), m_, ok)

CopyCommonDirs(st, src, dest, m_, ok) ==
    IF st.err THEN Result(st, FALSE)
    ELSE CommonLoop(st, FALSE, src, dest, SortNames(CommonDirs(st.fs, src, dest)), m_, ok)

\* --------------------------------------------------------------- main()
VARIABLES fs, m, pc, loc, out, run, fs0, log, prev

vars == <<fs, m, pc, loc, out, run, fs0, log, prev>>

\* module.sha1: a digest, distinct for distinct contents and never None
Sha1(c) == c + 1

NoLoc == [dest |-> PathArg(<<>>, FALSE), sum_src |-> NoSum, sum_dest |-> NoSum,
          changed |-> FALSE, backup_file |-> <<>>, mysrc |-> <<>>, converted |-> FALSE]
Running == [state |-> "running", msg |-> "", changed |-> FALSE, info |-> <<>>]

\* module.fail_json(msg=...), and an exception nothing catches: the run ends
\* there; whatever was written before stays written.
FailInfo(msg, newfs, newlog, info) ==
    /\ fs' = newfs
    /\ log' = newlog
    /\ pc' = "end"
    /\ out' = [state |-> "failed", msg |-> msg, changed |-> FALSE, info |-> info]
    /\ UNCHANGED <<m, loc, run, fs0, prev>>

FailLog(msg, newfs, newlog) == FailInfo(msg, newfs, newlog, <<>>)
Fail(msg, newfs) == FailLog(msg, newfs, log)

\* module.exit_json(changed=...)
Exit(msg, ch, newfs) ==
    /\ fs' = newfs
    /\ pc' = "end"
    /\ out' = [state |-> "ok", msg |-> msg, changed |-> ch, info |-> <<>>]
    /\ UNCHANGED <<m, loc, run, fs0, log, prev>>

\* the start of main() without the comparison of lines 562-567
StartUngated ==
    /\ pc = "start"
    /\ \E readable \in BOOLEAN :
         LET sum_src == IF IsFile(fs, m.src) THEN Sha1(fs[Real(fs, m.src.p)].data) ELSE NoSum
         IN IF ~Exists(fs, m.src) THEN Fail("Source not found", fs)
            ELSE IF ~readable THEN Fail("Source not readable", fs)
            ELSE /\ pc' = "prepare"
                 /\ loc' = [NoLoc EXCEPT !.dest = m.dest, !.sum_src = sum_src]
                 /\ UNCHANGED <<fs, m, out, run, fs0, log, prev>>

\* lines 512-567: the source must exist and be readable, its checksum is
\* taken, and a supplied checksum must equal it; the failure reports the
\* checksum found and the one expected.
Start ==
    /\ pc = "start"
    /\ \E readable \in BOOLEAN :
         LET sum_src == IF IsFile(fs, m.src) THEN Sha1(fs[Real(fs, m.src.p)].data) ELSE NoSum
         IN IF ~Exists(fs, m.src) THEN Fail("Source not found", fs)
            ELSE IF ~readable THEN Fail("Source not readable", fs)
            ELSE IF m.checksum /= NoSum /\ sum_src /= m.checksum
            THEN FailInfo("Copied file does not match the expected checksum", fs, log,
                          <<sum_src, m.checksum>>)
            ELSE /\ pc' = "prepare"
                 /\ loc' = [NoLoc EXCEPT !.dest = m.dest, !.sum_src = sum_src]
                 /\ UNCHANGED <<fs, m, out, run, fs0, log, prev>>

\* lines 578-592: os.makedirs(dirname), run in check mode too, then
\* adjust_recursive_directory_permissions, whose set_fs_attributes_if_different
\* changes nothing in check mode.
MakeNewDirs(f, p, mm) ==
    LET made == MakeDirs(f, p)
        new == DOMAIN made \ DOMAIN f
    IN IF mm.check_mode \/ mm.owner = NoOwner THEN made
       ELSE [q \in DOMAIN made |-> IF q \in new THEN [made[q] EXCEPT !.owner = mm.owner] ELSE made[q]]

\* lines 572-592: the intermediate directories of a dest that ends in the
\* separator
WithDirs(f, mm) ==
    IF mm.dest.slash /\ ~Exists(f, DirName(mm.dest)) THEN MakeNewDirs(f, DirName(mm.dest).p, mm) ELSE f

\* lines 594-599: a dest that is a directory stands for the entry in it that
\* is named as the source is
InDest(f, mm) == IF IsDir(f, mm.dest) THEN Join(mm.dest, BaseName(mm.src)) ELSE mm.dest

\* lines 604-607: with follow, a dest that is a link stands for what it names
FinalDest(f, mm) ==
    IF Exists(f, InDest(f, mm)) /\ IsLink(f, InDest(f, mm)) /\ mm.follow
    THEN PathArg(Real(f, InDest(f, mm).p), FALSE)
    ELSE InDest(f, mm)

\* lines 572-635: intermediate directories for a dest ending in the separator,
\* dest inside an existing directory, the link followed, force, the dest
\* checksum, the checks of the dest directory, and the decision to commit.
Prepare ==
    /\ pc = "prepare"
    /\ \E writable \in BOOLEAN :
         LET fs1 == WithDirs(fs, m)
             ex == Exists(fs1, InDest(fs1, m))
             d2 == FinalDest(fs1, m)
             sum_dest == IF ex /\ IsFile(fs1, d2) THEN Sha1(fs1[Real(fs1, d2.p)].data) ELSE NoSum
             need == loc.sum_src /= sum_dest \/ IsLink(fs1, d2)
         IN IF ex /\ ~m.force THEN Exit("file already exists", FALSE, fs1)
            ELSE IF ~ex /\ ~Exists(fs1, DirName(d2)) THEN Fail("Destination directory does not exist", fs1)
            ELSE IF ~writable THEN Fail("Destination not writable", fs1)
            ELSE /\ fs' = fs1
                 /\ loc' = [loc EXCEPT !.dest = d2, !.sum_dest = sum_dest, !.changed = need]
                 /\ pc' = IF need /\ ~m.check_mode THEN "backup" ELSE "sync"
                 /\ UNCHANGED <<m, out, run, fs0, log, prev>>

\* lines 637-639: module.backup_local(dest) when backup is set and dest exists
Backup ==
    /\ pc = "backup"
    /\ \E ok \in BOOLEAN :
         LET d == loc.dest.p
             bd == LibBackupDest(Real(fs, d))
         IN IF m.backup /\ Exists(fs, loc.dest)
            THEN IF ok /\ IsFile(fs, loc.dest)
                 THEN /\ fs' = PreservedCopy(fs, d, bd)
                      /\ loc' = [loc EXCEPT !.backup_file = bd]
                      /\ pc' = "unlink"
                      /\ UNCHANGED <<m, out, run, fs0, log, prev>>
                 ELSE Fail("Could not make backup", fs)
            ELSE /\ pc' = "unlink"
                 /\ UNCHANGED <<fs, m, loc, out, run, fs0, log, prev>>

\* lines 641-643: a dest that is a link is removed and an empty file opened
Unlink ==
    /\ pc = "unlink"
    /\ LET lp == LReal(fs, loc.dest.p)
           rp == Real(fs, loc.dest.p)
       IN IF IsLink(fs, loc.dest)
          THEN /\ fs' = Put(Remove(fs, lp), lp, FileNode(0, ProcessUid, 0))
               /\ loc' = [loc EXCEPT !.converted = TRUE]
               /\ log' = IF KindAt(fs, rp) = "file"
                         THEN log \cup {[Replaced(fs, rp, loc.backup_file) EXCEPT !.path = lp]}
                         ELSE log
          ELSE UNCHANGED <<fs, loc, log>>
    /\ pc' = "validate"
    /\ UNCHANGED <<m, out, run, fs0, prev>>

\* lines 644-657: owner (and mode) are set on the source itself, the template
\* must hold %s, and the validator is run on the source
Validate ==
    /\ pc = "validate"
    /\ \E rc \in {0, 1} :
         LET owned == IF m.owner /= NoOwner THEN SetOwner(RunState(fs), m.src.p, m.owner).fs ELSE fs
         IN IF m.validate = "none"
            THEN /\ pc' = "stage"
                 /\ UNCHANGED <<fs, m, loc, out, run, fs0, log, prev>>
            ELSE IF m.validate = "noplaceholder" THEN Fail("validate must contain %s", owned)
            ELSE IF rc /= 0 THEN Fail("failed to validate", owned)
            ELSE /\ fs' = owned
                 /\ pc' = "stage"
                 /\ UNCHANGED <<m, loc, out, run, fs0, log, prev>>

\* a staging that makes the temporary file and copies nothing into it
StageTruncated ==
    /\ pc = "stage"
    /\ \E copied \in BOOLEAN :
         LET tmp == Append(Real(fs, DirName(loc.dest).p), "tmp")
         IN IF m.remote_src /\ IsFile(fs, m.src)
            THEN IF copied
                 THEN /\ fs' = Put(fs, tmp, FileNode(0, ProcessUid, 0))
                      /\ loc' = [loc EXCEPT !.mysrc = tmp]
                      /\ pc' = "move"
                      /\ UNCHANGED <<m, out, run, fs0, log, prev>>
                 ELSE Fail("failed to copy", Put(fs, tmp, FileNode(0, ProcessUid, 0)))
            ELSE /\ loc' = [loc EXCEPT !.mysrc = m.src.p]
                 /\ pc' = "move"
                 /\ UNCHANGED <<fs, m, out, run, fs0, log, prev>>

\* lines 658-669: with remote_src a temporary file is made in dest's directory
\* and the source copied into it (bytes, then times); copyfile may fail
Stage ==
    /\ pc = "stage"
    /\ \E copied \in BOOLEAN :
         LET tmp == Append(Real(fs, DirName(loc.dest).p), "tmp")
             s == fs[Real(fs, m.src.p)]
         IN IF m.remote_src /\ IsFile(fs, m.src)
            THEN IF copied
                 THEN /\ fs' = Put(fs, tmp, FileNode(s.data, ProcessUid, s.mtime))
                      /\ loc' = [loc EXCEPT !.mysrc = tmp]
                      /\ pc' = "move"
                      /\ UNCHANGED <<m, out, run, fs0, log, prev>>
                 ELSE Fail("failed to copy", Put(fs, tmp, FileNode(0, ProcessUid, 0)))
            ELSE /\ loc' = [loc EXCEPT !.mysrc = m.src.p]
                 /\ pc' = "move"
                 /\ UNCHANGED <<fs, m, out, run, fs0, log, prev>>

\* a rename that takes the source away and leaves dest as it was
RenameLost(f, src, dst) == Remove(f, LReal(f, src))

\* AnsibleModule.atomic_move(src, dest): dest's owner is given to src when
\* dest exists, and src is renamed over dest in one step; a new dest belongs
\* to the process.  A file cannot replace a directory nor a directory a file.
AtomicMove(f, src, dst) ==
    LET ls == LReal(f, src)
        ld == LReal(f, dst)
        o == IF Present(f, ld) THEN f[ld].owner ELSE ProcessUid
        moved == [q \in {r \in DOMAIN f : ~IsPrefix(ls, r) /\ ~IsPrefix(ld, r)}
                        \cup {ld \o Suffix(r, ls) : r \in {r \in DOMAIN f : IsPrefix(ls, r)}} |->
                    IF q = ld THEN [f[ls] EXCEPT !.owner = o]
                    ELSE IF IsPrefix(ld, q) THEN f[ls \o Suffix(q, ld)]
                    ELSE f[q]]
    IN moved

CanMove(f, src, dst) ==
    LET ks == KindAt(f, LReal(f, src))
        kd == KindAt(f, LReal(f, dst))
    IN /\ ks /= "absent"
       /\ kd = "absent" \/ (ks = "dir") = (kd = "dir")
       /\ ~(ks = "dir" /\ kd = "dir" /\ ListDir(f, dst) /= {})

\* line 679 and the handler of lines 719-720
Move ==
    /\ pc = "move"
    /\ \E renamed \in BOOLEAN :
         IF renamed /\ CanMove(fs, loc.mysrc, loc.dest.p)
         THEN /\ fs' = AtomicMove(fs, loc.mysrc, loc.dest.p)
              /\ log' = IF KindAt(fs, LReal(fs, loc.dest.p)) = "file" /\ ~loc.converted
                        THEN log \cup {Replaced(fs, LReal(fs, loc.dest.p), loc.backup_file)}
                        ELSE log
              /\ pc' = "sync"
              /\ UNCHANGED <<m, loc, out, run, fs0, prev>>
         ELSE Fail("failed to copy", fs)

\* one pair handled by main(): copy_diff_files, copy_left_only,
\* copy_common_dirs and chown_recursive, their results or-ed
Also(changed, r) == Result(r.st, changed \/ r.changed)
PairChown(changed, cd, dest, m_) == Also(changed \/ cd.changed, ChownRecursive(cd.st, dest, m_))
PairCommon(changed, lo, src, dest, m_, ok) ==
    PairChown(changed \/ lo.changed, CopyCommonDirs(lo.st, src.p, dest.p, m_, ok), dest, m_)
PairLeft(df, src, dest, m_, ok) ==
    PairCommon(df.changed, CopyLeftOnly(df.st, src.p, dest.p, m_), src, dest, m_, ok)

SyncPair(st, src, dest, m_, ok) ==
    IF st.err THEN Result(st, FALSE)
    ELSE IF ~IsDir(st.fs, src) \/ ~IsDir(st.fs, dest) THEN Result(Raise(st, "NotADirectoryError"), FALSE)
    ELSE PairLeft(CopyDiffFiles(st, src.p, dest.p, m_, ok), src, dest, m_, ok)

\* lines 736-743: src ends in the separator and dest is a directory
Strategy1(r, m_, ok) ==
    IF ~r.st.err /\ m_.src.slash /\ IsDir(r.st.fs, m_.dest)
    THEN Also(r.changed, SyncPair(r.st, m_.src, m_.dest, m_, ok))
    ELSE r

\* lines 745-755: src ends in the separator and dest does not exist
Strategy2(r, m_, dest) ==
    IF ~r.st.err /\ m_.src.slash /\ ~Exists(r.st.fs, m_.dest)
    THEN Result(ChownRecursive(IF m_.check_mode THEN r.st
                               ELSE CopyTree(r.st, m_.src.p, Join(m_.dest, BaseName(m_.src)).p,
                                             m_.local_follow /= "yes"),
                               dest, m_).st,
                TRUE)
    ELSE r

\* lines 757-778: src does not end in the separator and dest is a directory
Onto3(changed, copied, b_src, b_dest, m_, ok) ==
    IF Exists(copied.fs, b_dest) THEN Also(changed, SyncPair(copied, b_src, b_dest, m_, ok))
    ELSE Result(copied, changed)

Strategy3(r, m_, dest, ok) ==
    IF ~r.st.err /\ ~m_.src.slash /\ IsDir(r.st.fs, m_.dest)
    THEN Onto3(r.changed \/ ~Exists(r.st.fs, Join(m_.dest, BaseName(m_.src))),
               IF ~m_.check_mode /\ ~Exists(r.st.fs, Join(m_.dest, BaseName(m_.src)))
               THEN ChownRecursive(CopyTree(r.st, m_.src.p, Join(m_.dest, BaseName(m_.src)).p,
                                            m_.local_follow /= "yes"),
                                   dest, m_).st
               ELSE r.st,
               Join(m_.src, ""), Join(m_.dest, BaseName(m_.src)), m_, ok)
    ELSE r

\* lines 781-796: src does not end in the separator and dest does not exist
Strategy4(r, m_, ok) ==
    IF ~r.st.err /\ ~m_.src.slash /\ ~Exists(r.st.fs, m_.dest)
    THEN IF Exists(r.st.fs, Join(m_.dest, BaseName(m_.src))) THEN r
         ELSE IF m_.check_mode THEN Result(r.st, TRUE)
         ELSE Also(r.changed,
                   SyncPair([r.st EXCEPT !.fs = MakeDirs(r.st.fs, Join(m_.dest, BaseName(m_.src)).p)],
                            Join(m_.src, ""), Join(m_.dest, BaseName(m_.src)), m_, ok))
    ELSE r

\* lines 727-796
DirSync(st, m_, lc, ok) ==
    IF lc.sum_src = NoSum /\ lc.sum_dest = NoSum /\ m_.remote_src /\ IsDir(st.fs, m_.src)
    THEN Strategy4(Strategy3(Strategy2(Strategy1(Result(st, lc.changed), m_, ok), m_, lc.dest), m_, lc.dest, ok),
                   m_, ok)
    ELSE Result(st, lc.changed)

SyncEnd(r) ==
    IF r.st.err THEN FailLog(r.st.why, r.st.fs, log \cup r.st.log)
    ELSE /\ fs' = r.st.fs
         /\ log' = log \cup r.st.log
         /\ loc' = [loc EXCEPT !.changed = r.changed]
         /\ pc' = "finish"
         /\ UNCHANGED <<m, out, run, fs0, prev>>

Sync ==
    /\ pc = "sync"
    /\ \E ok \in IF m.backup /\ ~m.py3 /\ ~m.check_mode THEN BOOLEAN ELSE {TRUE} :
         SyncEnd(DirSync(RunState(fs), m, loc, ok))

\* lines 798-809: outside check mode the owner of dest is reconciled and a
\* change of it makes the result changed
Finish ==
    /\ pc = "finish"
    /\ LET path == IF m.follow /\ IsLink(fs, loc.dest) THEN Real(fs, loc.dest.p) ELSE loc.dest.p
           lp == LReal(fs, path)
       IN IF m.check_mode \/ m.owner = NoOwner THEN Exit("", loc.changed, fs)
          ELSE IF ~Present(fs, lp) THEN Fail("OSError", fs)
          ELSE Exit("", loc.changed \/ OwnerDiffers(fs, path, m.owner), SetOwner(RunState(fs), path, m.owner).fs)

\* ------------------------------------------------------------ invocations
\* The harness runs main() twice.  After a run in check mode the second run
\* is the real run from the same initial filesystem; after a successful real
\* run it is the same invocation again, handed the same source again (the
\* atomic move of a source that was not staged consumes it).
RestoreSrc(f, f00) ==
    [q \in {r \in DOMAIN f : Head(r) /= "in"} \cup {r \in DOMAIN f00 : Head(r) = "in"} |->
        IF Head(q) = "in" THEN f00[q] ELSE f[q]]

Rerun ==
    /\ pc = "end"
    /\ run = 1
    /\ m.check_mode \/ out.state = "ok"
    /\ run' = 2
    /\ prev' = [out |-> out, fs |-> fs, log |-> log, fs0 |-> fs0, check |-> m.check_mode, dest |-> loc.dest]
    /\ fs' = IF m.check_mode THEN fs0 ELSE RestoreSrc(fs, fs0)
    /\ fs0' = fs'
    /\ m' = [m EXCEPT !.check_mode = FALSE, !.date = "date2"]
    /\ pc' = "start"
    /\ loc' = NoLoc
    /\ out' = Running
    /\ log' = {}

\* ------------------------------------------------------------ initial states
Empty == [q \in {} |-> DirNode(ProcessUid)]
One(p, n) == [q \in {p} |-> n]
Under(name, tree) == [q \in {<<name>> \o r : r \in DOMAIN tree} |-> tree[Tail(q)]]
Place(root, tree) == [q \in {root \o r : r \in DOMAIN tree} |-> tree[Suffix(q, root)]]
SubDir(name, tree) == One(<<name>>, DirNode(ProcessUid)) @@ Under(name, tree)
Pair(s, d) == [s |-> s, d |-> d]

Times == 1..2
SrcFile == FileNode(1, ProcessUid, 1)

\* what is always there: the source root, the destination root, and the
\* file and the directory that links point at
Base(tf) ==
    One(<<"in">>, DirNode(ProcessUid)) @@ One(SrcRoot, DirNode(ProcessUid))
    @@ One(DestRoot, DirNode(ProcessUid)) @@ One(<<"t">>, DirNode(ProcessUid))
    @@ One(LinkFile, FileNode(tf, ProcessUid, 1)) @@ One(LinkDir, DirNode(ProcessUid))
    @@ One(LinkDir \o <<"a">>, SrcFile)

\* entry "a" of a pair of directories below the top: a regular file in the
\* source, and nothing, the same file or another file in the destination
PlainPairs(dt) ==
    {Pair(One(<<"a">>, SrcFile), Empty)}
    \cup {Pair(One(<<"a">>, SrcFile), One(<<"a">>, FileNode(c, ProcessUid, dt))) : c \in Contents}

\* entry "a" of the top pair: every kind on either side
TopPairs(dt) ==
    PlainPairs(dt)
    \cup {Pair(One(<<"a">>, SrcFile), One(<<"a">>, DirNode(ProcessUid))),
          Pair(Empty, One(<<"a">>, FileNode(1, ProcessUid, dt))),
          Pair(Empty, Empty),
          Pair(One(<<"a">>, LinkNode(LinkDir, ProcessUid)), Empty),
          Pair(One(<<"a">>, LinkNode(LinkDir, ProcessUid)), One(<<"a">>, DirNode(ProcessUid))),
          Pair(One(<<"a">>, LinkNode(LinkGone, ProcessUid)), Empty),
          Pair(One(<<"a">>, LinkNode(LinkGone, ProcessUid)), One(<<"a">>, FileNode(1, ProcessUid, dt))),
          Pair(One(<<"a">>, LinkNode(LinkFile, ProcessUid)), Empty),
          \* dest "a" a link to "f" of the destination root, which the source has not
          Pair(One(<<"a">>, SrcFile),
               One(<<"a">>, LinkNode(DestRoot \o <<"f">>, ProcessUid)) @@ One(<<"f">>, FileNode(2, ProcessUid, dt)))}
    \cup {Pair(One(<<"a">>, LinkNode(LinkFile, ProcessUid)), One(<<"a">>, FileNode(c, ProcessUid, dt))) : c \in Contents}

\* entry "b" when it is not a directory on both sides
LonePairs ==
    {Pair(Empty, Empty),
     Pair(SubDir("b", One(<<"a">>, SrcFile)), Empty),
     Pair(SubDir("b", One(<<"a">>, LinkNode(LinkFile, ProcessUid))), Empty),
     Pair(Empty, SubDir("b", One(<<"a">>, FileNode(1, ProcessUid, 1)))),
     Pair(SubDir("b", Empty), One(<<"b">>, FileNode(1, ProcessUid, 1)))}

\* the pairs of trees with shared directories b, b/b, ... down to depth k
RECURSIVE TreePairs(_, _, _)
TreePairs(k, dt, top) ==
    LET as == IF top THEN TopPairs(dt) ELSE PlainPairs(dt)
        bs == (IF top THEN LonePairs ELSE {Pair(Empty, Empty)})
              \cup (IF k = 0 THEN {}
                    ELSE {Pair(SubDir("b", t.s), SubDir("b", t.d)) : t \in TreePairs(k - 1, dt, FALSE)})
    IN {Pair(a.s @@ b.s, a.d @@ b.d) : a \in as, b \in bs}

HasLink(tree) == \E q \in DOMAIN tree : tree[q].kind = "link"
\* the parameters of one invocation; _original_basename and unsafe_writes are
\* left unset, as a direct call of the module leaves them
Params(src, dest, check, backup, py3, owner, lf, validate, remote, checksum, follow, force) ==
    [src |-> src, dest |-> dest, check_mode |-> check, backup |-> backup, py3 |-> py3,
     owner |-> owner, local_follow |-> lf, validate |-> validate, remote_src |-> remote,
     checksum |-> checksum, follow |-> follow, force |-> force, date |-> "date1"]

Owners == {NoOwner, AppUid}
\* backup off; backup on under Python 3; backup on under Python 2
BackupModes == {<<FALSE, TRUE>>, <<TRUE, TRUE>>, <<TRUE, FALSE>>}
Follows(tree) == IF HasLink(tree) THEN {"unset", "yes", "no"} ELSE {"unset"}

\* ---- a regular file as the source
DestA == DestRoot \o <<"a">>
FileDestStates ==
    {[tf |-> 1, t |-> Empty]}
    \cup {[tf |-> 1, t |-> One(DestA, FileNode(c, ProcessUid, 2))] : c \in Contents}
    \cup {[tf |-> c, t |-> One(DestA, LinkNode(LinkFile, ProcessUid))] : c \in Contents}
    \cup {[tf |-> 1, t |-> One(DestA, LinkNode(LinkGone, ProcessUid))],
          [tf |-> 1, t |-> One(DestA, DirNode(ProcessUid))]}

FileDests ==
    {[arg |-> PathArg(DestA, FALSE), st |-> s] : s \in FileDestStates}
    \cup {[arg |-> PathArg(DestRoot, TRUE), st |-> s] : s \in FileDestStates}
    \cup {[arg |-> PathArg(DestRoot \o <<"new">>, TRUE), st |-> [tf |-> 1, t |-> Empty]],
          [arg |-> PathArg(DestRoot \o <<"new", "a">>, FALSE), st |-> [tf |-> 1, t |-> Empty]]}

\* parameters that the run cannot read are not varied: local_follow without a
\* link in the source, follow without a link at dest, force without a dest,
\* and the two forms of an existing dest root without a backup that works
InitRest(mm) ==
    /\ pc = "start"
    /\ loc = NoLoc
    /\ out = Running
    /\ run = 1
    /\ log = {}
    /\ prev = [out |-> Running, fs |-> Empty, log |-> {}, fs0 |-> Empty, check |-> FALSE,
               dest |-> PathArg(<<>>, FALSE)]
    /\ m = mm
    /\ fs0 = fs

InitFile ==
    \E d \in FileDests, check \in BOOLEAN, backup \in BOOLEAN, owner \in Owners,
       validate \in {"none", "ok", "noplaceholder"}, remote \in BOOLEAN,
       checksum \in {NoSum, Sha1(1), Sha1(2)}, follow \in BOOLEAN, force \in BOOLEAN :
        /\ follow => \E q \in DOMAIN d.st.t : d.st.t[q].kind = "link"
        /\ ~force => d.st.t /= Empty
        /\ fs = Base(d.st.tf) @@ One(SrcRoot \o <<"a">>, SrcFile) @@ d.st.t
        /\ InitRest(Params(PathArg(SrcRoot \o <<"a">>, FALSE), d.arg, check, backup, TRUE, owner, "unset",
                         validate, remote, checksum, follow, force))

\* ---- a directory as the source, synchronised onto an existing directory
TopTrees == {Pair(a.s @@ b.s, a.d @@ b.d) : a \in TopPairs(2), b \in LonePairs}
DeepTrees == UNION {TreePairs(MaxDepth, dt, FALSE) : dt \in Times}

\* src "/in/s/" onto dest "/d" or "/d/"; src "/in/s" into dest "/d", onto "/d/s"
OntoForms ==
    {[src |-> PathArg(SrcRoot, TRUE), dest |-> PathArg(DestRoot, sl), at |-> DestRoot] : sl \in BOOLEAN}
    \cup {[src |-> PathArg(SrcRoot, FALSE), dest |-> PathArg(DestRoot, FALSE), at |-> DestRoot \o <<"s">>]}

InitOnto ==
    \E t \in TopTrees \cup DeepTrees, f \in OntoForms, check \in BOOLEAN, bm \in BackupModes,
       owner \in Owners, lf \in {"unset", "yes", "no"} :
        /\ lf \in Follows(t.s)
        /\ f.dest.slash => (bm[1] /\ ~bm[2])
        /\ fs = Base(1) @@ Place(SrcRoot, t.s) @@ One(f.at, DirNode(ProcessUid)) @@ Place(f.at, t.d)
        /\ InitRest(Params(f.src, f.dest, check, bm[1], bm[2], owner, lf, "none", TRUE, NoSum, FALSE, TRUE))

\* ---- a directory as the source, the place it goes to not existing yet
NewForms ==
    {[src |-> PathArg(SrcRoot, sl), dest |-> PathArg(DestRoot \o <<"new">>, dl)] : sl, dl \in BOOLEAN}
    \cup {[src |-> PathArg(SrcRoot, FALSE), dest |-> PathArg(DestRoot, FALSE)]}

InitNew ==
    \E s \in {t.s : t \in TopTrees \cup DeepTrees}, f \in NewForms, check \in BOOLEAN,
       owner \in Owners, lf \in {"unset", "yes", "no"}, checksum \in {NoSum, Sha1(1)} :
        /\ lf \in Follows(s)
        /\ fs = Base(1) @@ Place(SrcRoot, s)
        /\ InitRest(Params(f.src, f.dest, check, FALSE, TRUE, owner, lf, "none", TRUE, checksum, FALSE, TRUE))

\* ---- a directory as the source, dest naming an entry of any shape: absent,
\* a regular file, a directory, a link; remote_src set or left unset
InitAcross ==
    \E d \in FileDestStates, sl \in BOOLEAN, check \in BOOLEAN, backup \in BOOLEAN,
       remote \in BOOLEAN, follow \in BOOLEAN :
        /\ follow => \E q \in DOMAIN d.t : d.t[q].kind = "link"
        /\ fs = Base(d.tf) @@ One(SrcRoot \o <<"a">>, SrcFile) @@ d.t
        /\ InitRest(Params(PathArg(SrcRoot, sl), PathArg(DestA, FALSE), check, backup, TRUE, NoOwner, "unset",
                         "none", remote, NoSum, follow, TRUE))

Init == InitFile \/ InitOnto \/ InitNew \/ InitAcross

Next ==
    \/ Start
    \/ Prepare
    \/ Backup
    \/ Unlink
    \/ Validate
    \/ Stage
    \/ Move
    \/ Sync
    \/ Finish
    \/ Rerun

Spec == Init /\ [][Next]_vars

\* -------------------------------------------------------------- properties
Ended == pc = "end"
Completed == pc = "end" /\ out.state = "ok"

\* failures that the surroundings cause, not the inputs: a source that cannot
\* be read, a directory that cannot be written, a copy that does not succeed,
\* a validator that rejects
Faults == {"Source not readable", "Destination not writable", "Could not make backup",
           "failed to copy", "failed to validate"}
Faulted == pc = "end" /\ out.state = "failed" /\ out.msg \in Faults

\* the second of two real runs; the real run after a run in check mode
SecondReal == run = 2 /\ ~prev.check
RealAfterDry == run = 2 /\ prev.check
\* the filesystem the first run started from
FirstFs == IF run = 1 THEN fs0 ELSE prev.fs0

FileSource == KindAt(FirstFs, Real(FirstFs, m.src.p)) = "file"
DirSource == KindAt(FirstFs, Real(FirstFs, m.src.p)) = "dir" /\ m.remote_src
SrcData == FirstFs[Real(FirstFs, m.src.p)].data

\* the destination path of the invocation, from the filesystem it starts on
Target == FinalDest(WithDirs(FirstFs, m), m).p

\* what a reader finds at path p: the kind, and the bytes of a file
Seen(f, p) ==
    IF KindAt(f, Real(f, p)) = "file" THEN <<"file", f[Real(f, p)].data>> ELSE <<KindAt(f, Real(f, p))>>
\* the entry at p itself: its kind, its link target, and what a reader finds
Entry(f, p) ==
    IF LReal(f, p) \in DOMAIN f THEN <<f[LReal(f, p)].kind, f[LReal(f, p)].target, Seen(f, p)>>
    ELSE <<KindAt(f, LReal(f, p))>>

\* ---- C1
\* the destination is absent, or a regular file with other content
AbsentOrOther ==
    \/ KindAt(FirstFs, LReal(FirstFs, Target)) = "absent"
    \/ /\ KindAt(FirstFs, LReal(FirstFs, Target)) = "file"
       /\ FirstFs[LReal(FirstFs, Target)].data /= SrcData

FirstCommits == out.state = "ok" /\ out.changed /\ Seen(fs, Target) = <<"file", SrcData>>
SecondKeeps ==
    /\ prev.out.changed
    /\ Faulted \/ (out.state = "ok" /\ ~out.changed)
    /\ Seen(fs, Target) = <<"file", SrcData>>
    /\ Seen(prev.fs, Target) = <<"file", SrcData>>

\* C1 as stated: for a source file and a destination that is absent or a
\* regular file with other content, the first of two real runs with the same
\* inputs reports changed, the second reports unchanged, and the destination
\* holds the source's bytes after both.
C1_Idempotent ==
    /\ (run = 1 /\ ~m.check_mode /\ Completed /\ FileSource /\ AbsentOrOther) => FirstCommits
    /\ (SecondReal /\ Ended /\ FileSource /\ AbsentOrOther) => SecondKeeps

\* C1 amended: the same, for invocations with force set.  (With force unset
\* an existing destination is kept and the run reports unchanged.)
C1_IdempotentForced ==
    /\ (run = 1 /\ ~m.check_mode /\ m.force /\ Completed /\ FileSource /\ AbsentOrOther) => FirstCommits
    /\ (SecondReal /\ m.force /\ Ended /\ FileSource /\ AbsentOrOther) => SecondKeeps

C1_Witness ==
    /\ SecondReal /\ Completed /\ FileSource /\ m.force
    /\ KindAt(FirstFs, LReal(FirstFs, Target)) = "file"
    /\ FirstFs[LReal(FirstFs, Target)].data /= SrcData
    /\ prev.out.changed /\ ~out.changed
    /\ Seen(fs, Target) = <<"file", SrcData>>

\* ---- C2
\* C2: for a source directory, after one real run has completed, a second run
\* with the same inputs changes nothing in the filesystem and reports
\* unchanged.
C2_SyncIdempotent ==
    (SecondReal /\ Ended /\ DirSource /\ ~Faulted) => (out.state = "ok" /\ ~out.changed /\ fs = fs0)

\* ---- C3
ChecksumRefused == m.checksum /= NoSum /\ m.checksum /= (IF FileSource THEN Sha1(SrcData) ELSE NoSum)

\* C3: when a checksum is supplied that is not the source's, the run ends in
\* the integrity failure, which reports the checksum found and the one
\* expected, unless the source could not be read at all; and at every moment
\* of the run the filesystem is the one the run started on and no content has
\* been replaced.
C3_ChecksumGate ==
    ChecksumRefused =>
        /\ fs = fs0 /\ log = {}
        /\ pc \in {"start", "end"}
        /\ pc = "end" =>
              /\ out.state = "failed"
              /\ \/ out.msg = "Source not readable"
                 \/ /\ out.msg = "Copied file does not match the expected checksum"
                    /\ out.info = <<IF FileSource THEN Sha1(SrcData) ELSE NoSum, m.checksum>>

C3_Witness ==
    /\ ChecksumRefused /\ Ended /\ run = 1 /\ ~m.check_mode
    /\ out.msg = "Copied file does not match the expected checksum"
    /\ FileSource /\ AbsentOrOther /\ m.force
    /\ KindAt(fs, LReal(fs, Target)) = "file"
    /\ fs = fs0

\* ---- C4
\* C4: with backup set, whenever the content of an existing destination path
\* is replaced, a backup of that path is already there, it is under the
\* directory that holds the backups of the invocation (backup root, date,
\* ticket), and it holds the content being replaced; so no content is
\* replaced when the backup could not be made.
C4_BackupBeforeOverwrite ==
    m.backup => \A e \in log : e.held /\ IsPrefix(TxnRoot(m), e.bak)

\* ---- C5
Committing == pc \in {"backup", "unlink", "validate", "stage", "move"}

\* C5: while a single file is being committed, and after a call that failed,
\* a reader of the destination path finds what was there before the call;
\* and at every moment it finds either that or the whole new content.
C5_AtomicCommit ==
    (run = 1 /\ FileSource) =>
        /\ (Committing \/ (Ended /\ out.state = "failed")) => Seen(fs, Target) = Seen(fs0, Target)
        /\ Seen(fs, Target) \in {Seen(fs0, Target), <<"file", SrcData>>}

\* ---- C6
\* C6: when the validator rejects, the run has failed and the destination
\* path is what it was before the call: the same kind, the same link target,
\* the same content.
C6_ValidationUntouched ==
    (run = 1 /\ Ended /\ out.msg = "failed to validate") =>
        (out.state = "failed" /\ Entry(fs, Target) = Entry(fs0, Target))

\* ---- C7
\* C7: at every moment of a run in check mode the filesystem is the one the
\* run started on.
C7_DryRunPure == (run = 1 /\ m.check_mode) => fs = fs0

\* ---- C8
\* C8: a run in check mode and a real run from the same filesystem with the
\* same inputs, both completing, report the same changed flag.
C8_DryRunSameResult ==
    (RealAfterDry /\ Completed /\ prev.out.state = "ok") => out.changed = prev.out.changed

\* ---- C9
\* the pairs of directories that the synchronisation may compare
DirPairs ==
    {pr \in {<<SrcRoot \o sub, at \o sub>> : sub \in {<<>>, <<"b">>, <<"b", "b">>},
                                             at \in {DestRoot, DestRoot \o <<"s">>, DestRoot \o <<"new">>}} :
        KindAt(fs, Real(fs, pr[1])) = "dir" /\ KindAt(fs, Real(fs, pr[2])) = "dir"}

Disjoint(A, B) == A \cap B = {}

\* C9: for every pair of directories, the new-only names, the changed names
\* and the shared directories are pairwise disjoint, and together with the
\* unchanged names they are all the names of the source directory.
C9_DiffPartition ==
    \A pr \in DirPairs :
        /\ Disjoint(LeftOnly(fs, pr[1], pr[2]), DiffFiles(fs, pr[1], pr[2]))
        /\ Disjoint(LeftOnly(fs, pr[1], pr[2]), CommonDirs(fs, pr[1], pr[2]))
        /\ Disjoint(DiffFiles(fs, pr[1], pr[2]), CommonDirs(fs, pr[1], pr[2]))
        /\ LeftOnly(fs, pr[1], pr[2]) \cup DiffFiles(fs, pr[1], pr[2]) \cup CommonDirs(fs, pr[1], pr[2])
              \cup SameFiles(fs, pr[1], pr[2]) = LeftList(fs, pr[1])

\* ---- C10
\* failures before the synchronisation starts, and those of the surroundings
Refusals ==
    Faults \cup {"Source not found", "Copied file does not match the expected checksum",
                 "Destination directory does not exist"}

\* where the content of the source directory goes
SyncAt == IF m.src.slash THEN m.dest.p ELSE Append(m.dest.p, Last(m.src.p))
Counterpart(q) == SyncAt \o Suffix(q, SrcRoot)

\* the links to files in the source tree whose counterpart is absent from the
\* destination or a regular file with other content
FileLinks ==
    {q \in DOMAIN fs0 :
        /\ IsPrefix(SrcRoot, q) /\ fs0[q].kind = "link" /\ KindAt(fs0, Real(fs0, q)) = "file"
        /\ \/ KindAt(fs0, LReal(fs0, Counterpart(q))) = "absent"
           \/ /\ KindAt(fs0, LReal(fs0, Counterpart(q))) = "file"
              /\ fs0[LReal(fs0, Counterpart(q))].data /= fs0[Real(fs0, q)].data}

\* C10: with local_follow false, after a real synchronisation every link to a
\* file in the source tree has as its counterpart a link with the same
\* target, whether the counterpart was absent or a file with other content.
C10_LinkPolicy ==
    (run = 1 /\ ~m.check_mode /\ DirSource /\ m.local_follow = "no" /\ Ended /\ out.msg \notin Refusals) =>
        \A q \in FileLinks :
            /\ KindAt(fs, Counterpart(q)) = "link"
            /\ fs[Counterpart(q)].target = fs0[q].target

\* ---- C11
\* the destination root that backup paths are relative to: the dest parameter
\* of a directory synchronisation, the directory of the destination file
BackupBase == IF KindAt(FirstFs, Real(FirstFs, m.src.p)) = "dir" THEN m.dest.p ELSE Front(Target)

\* C11: every backup made by an invocation lies in the directory of that
\* invocation's backups (backup root, date, ticket), at the path the original
\* has below the destination root; for the directory synchronisation and for
\* the single file, whatever the form of the dest parameter.
C11_BackupLayout ==
    /\ \A e \in log : e.bak /= <<>> => e.bak = TxnRoot(m) \o Suffix(e.path, BackupBase)
    /\ loc.backup_file /= <<>> => loc.backup_file = TxnRoot(m) \o <<Last(Target)>>

\* ---- C12
\* the failures of a precondition: of the source, of the destination
\* directory, of the validation template
PreconditionFailures ==
    {"Source not found", "Source not readable", "Destination directory does not exist",
     "Destination not writable", "validate must contain %s"}

\* C12: when main() fails on a precondition, the filesystem is the one the
\* run started on: nothing was created, backed up, unlinked or re-owned.
C12_PreconditionsFirst ==
    (Ended /\ out.state = "failed" /\ out.msg \in PreconditionFailures) => fs = fs0

\* ---- C13
\* nothing is at the destination path when the invocation starts, and the
\* directory it lies in exists
AbsentDest ==
    /\ KindAt(FirstFs, LReal(FirstFs, Target)) = "absent"
    /\ KindAt(FirstFs, Real(FirstFs, Front(Target))) = "dir"

\* the ends of a run that did not commit: the surroundings failed it, or the
\* checksum or the validation template refused it
NotCommitted ==
    \/ Faulted
    \/ ChecksumRefused /\ out.state = "failed"
    \/ out.state = "failed" /\ out.msg = "validate must contain %s"

\* C13: a real run of a source file onto a destination path where nothing is,
\* in an existing directory, makes no backup and replaces nothing, with backup
\* set or not; when it completes it reports a change, the destination holds
\* the source's content, and the destination is the only new path; a run
\* that does not complete was failed by the surroundings or refused.
C13_CommitToAbsent ==
    (run = 1 /\ ~m.check_mode /\ FileSource /\ AbsentDest) =>
        /\ loc.backup_file = <<>>
        /\ \A e \in log : e.bak = <<>> /\ ~e.held
        /\ Ended => Completed \/ NotCommitted
        /\ Completed =>
              /\ out.changed
              /\ Seen(fs, Target) = <<"file", SrcData>>
              /\ DOMAIN fs \ DOMAIN fs0 = {Target}

C13_Witness ==
    /\ run = 1 /\ ~m.check_mode /\ FileSource /\ AbsentDest
    /\ m.backup /\ m.remote_src
    /\ Completed /\ out.changed
    /\ Seen(fs, Target) = <<"file", SrcData>>

\* ---- C14
\* no symbolic link below the source root or the destination root
LinkFree == \A q \in DOMAIN fs0 : (IsPrefix(SrcRoot, q) \/ IsPrefix(DestRoot, q)) => fs0[q].kind /= "link"

\* the regular files of the source tree, at every depth
SourceFiles == {q \in DOMAIN fs0 : IsPrefix(SrcRoot, q) /\ fs0[q].kind = "file"}

\* C14: after a completed real synchronisation of a source directory onto an
\* existing destination directory, no link in either tree, every regular file
\* of the source tree, at every depth, has a counterpart with the same content;
\* and the run reports a change when a counterpart was created or overwritten.
C14_MirrorsTree ==
    (/\ run = 1 /\ ~m.check_mode /\ DirSource /\ LinkFree /\ Completed
     /\ KindAt(fs0, Real(fs0, m.dest.p)) = "dir") =>
        /\ \A q \in SourceFiles : Seen(fs, Counterpart(q)) = <<"file", fs0[q].data>>
        /\ (\E q \in SourceFiles : Seen(fs, Counterpart(q)) /= Seen(fs0, Counterpart(q))) => out.changed

\* ---- C15
\* the pairs of a directory of the source tree and its counterpart that are
\* both directories when the run starts: the top pair and the shared
\* subdirectories of every level
SharedPairs ==
    {pr \in {<<SrcRoot \o sub, SyncAt \o sub>> : sub \in {<<>>, <<"b">>, <<"b", "b">>}} :
        \A k \in 0..(Len(pr[1]) - Len(SrcRoot)) :
            /\ KindAt(fs0, LReal(fs0, SubSeq(pr[1], 1, Len(SrcRoot) + k))) = "dir"
            /\ KindAt(fs0, LReal(fs0, SubSeq(pr[2], 1, Len(SyncAt) + k))) = "dir"}

Pending(f, pr) == LeftOnly(f, pr[1], pr[2]) \cup DiffFiles(f, pr[1], pr[2])

\* C15: after a completed real synchronisation of link-free trees, the flag
\* reported is set when any pair of shared directories, at any level, had a
\* new-only or changed name; and every such pair was gone through, whatever
\* changed above it: none is left with a new-only or a changed name.
C15_AggregatesEveryLevel ==
    (run = 1 /\ ~m.check_mode /\ DirSource /\ LinkFree /\ Completed) =>
        /\ (\E pr \in SharedPairs : Pending(fs0, pr) /= {}) => out.changed
        /\ \A pr \in SharedPairs : Pending(fs, pr) = {}

\* ---- C16
\* the names that are new-only in the top pair when the run starts
NewOnly ==
    IF KindAt(fs0, Real(fs0, SyncAt)) = "dir" THEN LeftOnly(fs0, SrcRoot, SyncAt) ELSE {}

\* what the policy leaves at d for the new-only source entry s
Recreated(s, d) ==
    LET k == KindAt(fs0, Real(fs0, s))
    IN IF fs0[s].kind = "link"
       THEN IF m.local_follow /= "yes"
            THEN KindAt(fs, d) = "link" /\ fs[d].target = fs0[s].target
            ELSE IF k = "dir" THEN KindAt(fs, d) = "dir"
            ELSE KindAt(fs, d) /= "absent"
       ELSE IF k = "file" THEN Seen(fs, d) = <<"file", fs0[s].data>> /\ KindAt(fs, d) = "file"
       ELSE KindAt(fs, d) = "dir"

\* C16: after a completed real synchronisation, whatever local_follow is
\* (yes, no or unset), every name that was new-only in the top pair has an
\* entry in the destination: a link with the same target for a link when
\* links are not followed, a real directory for a link to a directory when
\* they are, a copy of the content for a file, a directory for a directory.
C16_NewOnlyTotal ==
    (run = 1 /\ ~m.check_mode /\ DirSource /\ Completed) =>
        \A n \in NewOnly : Recreated(Append(SrcRoot, n), Append(SyncAt, n))

\* ---- C17
\* the strategies of the synchronisation whose condition holds in f: by the
\* separator at the end of src and by dest being a directory or not existing
Applicable(f) ==
    {i \in 1..4 :
        \/ i = 1 /\ m.src.slash /\ IsDir(f, m.dest)
        \/ i = 2 /\ m.src.slash /\ ~Exists(f, m.dest)
        \/ i = 3 /\ ~m.src.slash /\ IsDir(f, m.dest)
        \/ i = 4 /\ ~m.src.slash /\ ~Exists(f, m.dest)}

\* C17: a source that is a directory never enters the sequence of the single
\* file (backup, unlink, validation, staging, rename) and, when it reaches the
\* synchronisation, exactly one of the four strategies takes it; a source
\* that is a regular file is left alone by the synchronisation.
C17_Dispatch ==
    /\ KindAt(FirstFs, Real(FirstFs, m.src.p)) = "dir" =>
          /\ ~Committing
          /\ pc = "sync" =>
                /\ loc.sum_src = NoSum /\ loc.sum_dest = NoSum /\ m.remote_src
                /\ Cardinality(Applicable(fs)) = 1
    /\ (FileSource /\ pc = "sync") =>
          \A ok \in BOOLEAN : DirSync(RunState(fs), m, loc, ok) = Result(RunState(fs), loc.changed)

\* ---- C18
\* the entries of the destination tree in f: its root and all below it
DestTree(f) == {q \in DOMAIN f : IsPrefix(SyncAt, q)}

\* chown_recursive on the destination tree of the current filesystem, for the
\* owner app, outside check mode and in check mode
ChownReal == ChownRecursive(RunState(fs), PathArg(SyncAt, FALSE), [m EXCEPT !.owner = AppUid, !.check_mode = FALSE])
ChownDry == ChownRecursive(RunState(fs), PathArg(SyncAt, FALSE), [m EXCEPT !.owner = AppUid, !.check_mode = TRUE])

\* C18: after a completed real synchronisation with an owner, every entry of
\* the destination tree has that owner; on every destination tree the run
\* meets, chown_recursive gives every entry the owner and returns true
\* exactly when some entry had another owner; and in check mode it returns
\* the same boolean and changes nothing.
C18_OwnershipWholeTree ==
    /\ (run = 1 /\ ~m.check_mode /\ DirSource /\ m.owner /= NoOwner /\ Completed) =>
          \A q \in DestTree(fs) : fs[q].owner = m.owner
    /\ (DirSource /\ KindAt(fs, LReal(fs, SyncAt)) = "dir") =>
          /\ ~ChownReal.st.err
          /\ \A q \in DestTree(fs) : ChownReal.st.fs[q].owner = AppUid
          /\ ChownReal.changed <=> \E q \in DestTree(fs) : fs[q].owner /= AppUid
          /\ ChownDry.st = RunState(fs)
          /\ ChownDry.changed = ChownReal.changed

\* ---- C19
\* the entries of the destination tree, when the run starts, that the source
\* tree has no entry for: at some level of their path below the root the
\* source has no such name
DestOnly ==
    {q \in DOMAIN fs0 :
        /\ IsPrefix(SyncAt, q) /\ q /= SyncAt
        /\ \E k \in 1..(Len(q) - Len(SyncAt)) :
              ~Present(fs0, SrcRoot \o SubSeq(q, Len(SyncAt) + 1, Len(SyncAt) + k))}

\* q is as it was when the run started: there, of the same kind, with the
\* same bytes and the same link target
Kept(q) ==
    /\ q \in DOMAIN fs
    /\ fs[q].kind = fs0[q].kind /\ fs[q].data = fs0[q].data /\ fs[q].target = fs0[q].target

\* C19: at every moment of the synchronisation of a source directory, every
\* entry of the destination tree that the source tree has no entry for is
\* still there, of the same kind and with the same content.
C19_DestOnlyKept ==
    (run = 1 /\ DirSource) => \A q \in DestOnly : Kept(q)

====
